---------------------------- MODULE Spec2Model ----------------------------
(***************************************************************************)
(* Booking lifecycle, availability and commission core of the pet-care     *)
(* marketplace (marketplace/models.py, serializers.py, views.py).          *)
(*                                                                         *)
(* Time is counted in slots: a datetime is a natural number t, its date is *)
(* t \div SlotsPerDay, its time of day t % SlotsPerDay, its weekday the    *)
(* date modulo 7.  Durations are counted in the same unit.  Money is       *)
(* counted in cents (DecimalField with decimal_places=2).                  *)
(***************************************************************************)
EXTENDS Integers, Sequences, FiniteSets, TLC

(***************************************************************************)
(* Bounds of the model.                                                    *)
(***************************************************************************)
SlotsPerDay == 2
MaxStart == 2
MaxBookings == 2
MaxNow == 1
MaxUpdates == 1
MaxAmount == 40
MaxReviewBookings == 5

(***************************************************************************)
(* Booking.STATUS_* and Booking.PAYMENT_* (models.py 154-174).             *)
(***************************************************************************)
STATUS_PENDING == "pending"
STATUS_ACCEPTED == "accepted"
STATUS_REJECTED == "rejected"
STATUS_CANCELLED == "cancelled"
STATUS_COMPLETED == "completed"
STATUS_CHOICES ==
    {STATUS_PENDING, STATUS_ACCEPTED, STATUS_REJECTED, STATUS_CANCELLED, STATUS_COMPLETED}

PAYMENT_PENDING == "pending"
PAYMENT_PAID == "paid"
PAYMENT_REFUNDED == "refunded"
PAYMENT_STATUS_CHOICES == {PAYMENT_PENDING, PAYMENT_PAID, PAYMENT_REFUNDED}

DIRECTION_CREDIT == "credit"
DIRECTION_DEBIT == "debit"

(***************************************************************************)
(* The reference data of the database: users, profiles, pets, service      *)
(* types and caregiver services.  They are created by registration and     *)
(* the admin before any booking and are not changed by the booking core.   *)
(***************************************************************************)
Users == {"owner", "care1", "care2", "other"}
Caregivers == {"c1", "c2"}
NoProfile == "none"

\* OwnerProfile.user (OneToOne): request.user.ownerprofile
ownerprofile(user) == IF user = "owner" THEN "o1" ELSE NoProfile

\* OwnerProfile.user, followed from the profile
owner_user(owner) == IF owner = "o1" THEN "owner" ELSE "nobody"

\* CaregiverProfile.user
caregiver_user(caregiver) == IF caregiver = "c1" THEN "care1" ELSE "care2"

\* Pet.owner for the pets of the database: p1 is o1's, p2 another owner's
Pets == [p1 |-> "o1", p2 |-> "o2"]

\* ServiceType rows by code, with base_duration_minutes (in slots)
ServiceTypes == [walk |-> [base_duration_minutes |-> 1],
                 sit  |-> [base_duration_minutes |-> 1]]

\* CaregiverService rows (unique per caregiver and service type)
CaregiverServices ==
    { [caregiver |-> "c1", service_type |-> "walk", price_per_unit |-> 3000, is_active |-> TRUE],
      [caregiver |-> "c2", service_type |-> "walk", price_per_unit |-> 1010, is_active |-> TRUE],
      [caregiver |-> "c1", service_type |-> "sit",  price_per_unit |-> 2000, is_active |-> FALSE] }

(***************************************************************************)
(* datetime helpers: start.weekday(), start.time(), start.date().          *)
(***************************************************************************)
DateOf(t) == t \div SlotsPerDay
TimeOf(t) == t % SlotsPerDay
Weekday(t) == DateOf(t) % 7

VARIABLES
    PLATFORM_FEE_PERCENT,   \* settings.PLATFORM_FEE_PERCENT, in thousandths
    availabilities,         \* CaregiverAvailability rows
    time_off,               \* TimeOff rows
    bookings,               \* Booking rows by id
    nextId,                 \* the next Booking id to hand out
    ledger,                 \* TransactionLog rows, in creation order
    updates,                \* generic update / delete requests served so far
    last,                   \* the last operation and its outcome
    commission,             \* the last direct compute_commission call
    procs,                  \* the requests in flight, by worker
    reviews,                \* Review rows
    ratings,                \* CaregiverProfile.rating_average (in hundredths) and
                            \* rating_count, by caregiver
    coalesce_raises         \* whether the installed ORM rejects Coalesce(Avg('rating'), 0)

cfgVars == <<PLATFORM_FEE_PERCENT, availabilities, time_off>>
dbVars == <<bookings, nextId, ledger>>
reviewVars == <<reviews, ratings, coalesce_raises>>
vars == <<PLATFORM_FEE_PERCENT, availabilities, time_off, bookings, nextId, ledger,
          updates, last, commission, procs, reviews, ratings, coalesce_raises>>

RateDen == 1000

(***************************************************************************)
(* Decimal.quantize(Decimal('0.01')) of n/d cents for n >= 0, d > 0 under  *)
(* the default context: ROUND_HALF_EVEN.                                   *)
(***************************************************************************)
QuantizeCents(n, d) ==
    LET q == n \div d
        r == n % d
    IN  IF 2 * r < d THEN q
        ELSE IF 2 * r > d THEN q + 1
        ELSE IF q % 2 = 0 THEN q ELSE q + 1

\* a quantize that truncates instead of rounding
compute_commission_trunc(amount) ==
    LET platform_fee == (amount * PLATFORM_FEE_PERCENT) \div RateDen
    IN  [platform_fee |-> platform_fee, caregiver_earnings |-> amount - platform_fee]

\* the subtraction with its operands exchanged
compute_commission_swapped(amount) ==
    LET platform_fee == QuantizeCents(amount * PLATFORM_FEE_PERCENT, RateDen)
    IN  [platform_fee |-> platform_fee, caregiver_earnings |-> platform_fee - amount]

\* compute_commission (models.py 328-331)
compute_commission(amount) ==
    LET platform_fee == QuantizeCents(amount * PLATFORM_FEE_PERCENT, RateDen)
        caregiver_earnings == amount - platform_fee
    IN  [platform_fee |-> platform_fee, caregiver_earnings |-> caregiver_earnings]

(***************************************************************************)
(* is_caregiver_available (models.py 302-325), on the rows of the database.*)
(***************************************************************************)
TimeRangeOk(caregiver, start, end) ==
    \E a \in availabilities :
        /\ a.caregiver = caregiver
        /\ a.weekday = Weekday(start)
        /\ a.start_time <= TimeOf(start)
        /\ a.end_time >= TimeOf(end)

\* a time-off test whose bounds are exclusive
TimeOffHit_exclusive(caregiver, start, end) ==
    \E t \in time_off :
        /\ t.caregiver = caregiver
        /\ t.date_from < DateOf(start)
        /\ t.date_to > DateOf(end)

TimeOffHit(caregiver, start, end) ==
    \E t \in time_off :
        /\ t.caregiver = caregiver
        /\ t.date_from <= DateOf(start)
        /\ t.date_to >= DateOf(end)

\* an overlap test that counts a booking that only touches the window
Overlapping_touching(rows, caregiver, start, end) ==
    \E b \in DOMAIN rows :
        /\ rows[b].caregiver = caregiver
        /\ rows[b].status \in {STATUS_PENDING, STATUS_ACCEPTED}
        /\ rows[b].start_datetime <= end
        /\ rows[b].end_datetime >= start

Overlapping(rows, caregiver, start, end) ==
    \E b \in DOMAIN rows :
        /\ rows[b].caregiver = caregiver
        /\ rows[b].status \in {STATUS_PENDING, STATUS_ACCEPTED}
        /\ rows[b].start_datetime < end
        /\ rows[b].end_datetime > start

\* a check that leaves the time-off rows out
is_caregiver_available_no_time_off(rows, caregiver, start, end) ==
    IF ~TimeRangeOk(caregiver, start, end) THEN FALSE
    ELSE ~Overlapping(rows, caregiver, start, end)

is_caregiver_available(rows, caregiver, start, end) ==
    IF ~TimeRangeOk(caregiver, start, end) THEN FALSE
    ELSE IF TimeOffHit(caregiver, start, end) THEN FALSE
    ELSE ~Overlapping(rows, caregiver, start, end)

(***************************************************************************)
(* Booking.ALLOWED_TRANSITIONS and Booking.change_status (models.py        *)
(* 194-205).  change_status returns whether it raised ValueError and the   *)
(* object after the call; the caller saves update_fields = ['status'].     *)
(***************************************************************************)
\* a table that lets an accepted booking go back to pending
ALLOWED_TRANSITIONS_back(status) ==
    CASE status = STATUS_PENDING -> {STATUS_ACCEPTED, STATUS_REJECTED, STATUS_CANCELLED}
      [] status = STATUS_ACCEPTED -> {STATUS_COMPLETED, STATUS_CANCELLED, STATUS_PENDING}
      [] OTHER -> {}

ALLOWED_TRANSITIONS(status) ==
    CASE status = STATUS_PENDING -> {STATUS_ACCEPTED, STATUS_REJECTED, STATUS_CANCELLED}
      [] status = STATUS_ACCEPTED -> {STATUS_COMPLETED, STATUS_CANCELLED}
      [] OTHER -> {}

\* a lookup that falls back to the pending row for a status without a row
change_status_default_row(self, new_status) ==
    LET allowed == IF ALLOWED_TRANSITIONS(self.status) = {}
                   THEN ALLOWED_TRANSITIONS(STATUS_PENDING)
                   ELSE ALLOWED_TRANSITIONS(self.status)
    IN  IF new_status \notin allowed
        THEN [raised |-> TRUE, self |-> self]
        ELSE [raised |-> FALSE, self |-> [self EXCEPT !.status = new_status]]

change_status(self, new_status) ==
    IF new_status \notin ALLOWED_TRANSITIONS(self.status)
    THEN [raised |-> TRUE, self |-> self]
    ELSE [raised |-> FALSE, self |-> [self EXCEPT !.status = new_status]]

\* a save that writes every column of the row from the object
SaveFields_whole_row(rows, id, self, fields) ==
    [rows EXCEPT ![id] = self]

\* Model.save(update_fields=fields): writes only these columns of the row
SaveFields(rows, id, self, fields) ==
    [rows EXCEPT ![id] =
        [f \in DOMAIN rows[id] |-> IF f \in fields THEN self[f] ELSE rows[id][f]]]

(***************************************************************************)
(* The outcome record of an operation: what was called and how it ended    *)
(* (the response status or the exception).                                 *)
(***************************************************************************)
Outcome(op, result) == [op |-> op, result |-> result]

\* the workers of the server and a worker between two requests
Workers == {"w1", "w2"}
Idle == [pc |-> "idle"]

NoCommission == [amount |-> -1, platform_fee |-> 0, caregiver_earnings |-> 0]

\* the defaults of CaregiverProfile.rating_average and rating_count
\* (models.py 60-61)
NoRatings == [c \in Caregivers |-> [rating_average |-> 0, rating_count |-> 0]]

(***************************************************************************)
(* The CaregiverAvailability and TimeOff rows of the database.             *)
(***************************************************************************)
Availability(c, w, s, e) == [caregiver |-> c, weekday |-> w, start_time |-> s, end_time |-> e]
Off(c, f, t) == [caregiver |-> c, date_from |-> f, date_to |-> t]

\* c1 works the whole of day 0 and day 1 and is off on day 1's date;
\* c2 works only the last slot of day 0
FixtureAvailabilities ==
    { Availability("c1", 0, 0, SlotsPerDay - 1),
      Availability("c1", 1, 0, SlotsPerDay - 1),
      Availability("c2", 0, SlotsPerDay - 1, SlotsPerDay - 1) }
FixtureTimeOff == { Off("c1", 1, 1) }

InitDb ==
    /\ bookings = <<>>
    /\ nextId = 1
    /\ ledger = <<>>
    /\ updates = 0
    /\ last = Outcome("init", "ok")
    /\ commission = NoCommission
    /\ procs = [p \in Workers |-> Idle]
    /\ reviews = {}
    /\ ratings = NoRatings
    /\ coalesce_raises = FALSE

Init ==
    /\ PLATFORM_FEE_PERCENT = 150
    /\ availabilities = FixtureAvailabilities
    /\ time_off = FixtureTimeOff
    /\ InitDb

(***************************************************************************)
(* POST /bookings/: BookingCreateSerializer.validate and .create           *)
(* (serializers.py 138-218) behind BookingViewSet.create.                  *)
(***************************************************************************)
CreateRequest(user, pet, caregiver, code, start, duration, extra) ==
    [user |-> user, pet_id |-> pet, caregiver_id |-> caregiver, service_type_code |-> code,
     start_datetime |-> start, duration_minutes |-> duration, extra |-> extra]

\* fields of the request body that the serializer does not declare
NoExtra == [status |-> "", price_subtotal |-> -1]
Extras == {NoExtra, [status |-> STATUS_COMPLETED, price_subtotal |-> 1]}

DurationCap(code) == ServiceTypes[code].base_duration_minutes * 4
Durations == {1, DurationCap("walk"), DurationCap("walk") + 1}

\* timezone.now() as read by a request
Clock == 0..MaxNow

\* the requests served: every start for c1, each duration at the first start,
\* c2's slot, undeclared fields in the body, and one request for each
\* reference that does not resolve
CreateRequests ==
    { CreateRequest("owner", "p1", "c1", "walk", s, 1, NoExtra) : s \in 0..MaxStart }
    \cup { CreateRequest("owner", "p1", "c1", "walk", 0, d, NoExtra) : d \in Durations }
    \cup { CreateRequest("owner", "p1", "c2", "walk", s, 1, NoExtra) :
          s \in {SlotsPerDay - 1, SlotsPerDay} }
    \cup { CreateRequest("owner", "p1", "c1", "walk", 1, 1, x) : x \in Extras }
    \cup { CreateRequest(u, "p1", "c1", "walk", MaxStart, 1, NoExtra) : u \in Users }
    \cup { CreateRequest("owner", p, "c1", "walk", MaxStart, 1, NoExtra) : p \in {"p2", "pX"} }
    \cup { CreateRequest("owner", "p1", "cX", "walk", MaxStart, 1, NoExtra) }
    \cup { CreateRequest("owner", "p1", c, code, MaxStart, 1, NoExtra) :
          c \in Caregivers, code \in {"sit", "sX"} }

\* the requests served beside the generic update and delete
ApiCreateRequests ==
    { CreateRequest("owner", "p1", "c1", "walk", s, 1, NoExtra) : s \in {0, 1} }
    \cup { CreateRequest("other", "p1", "c1", "walk", 1, 1, NoExtra) }

ActiveService(caregiver, code) ==
    { cs \in CaregiverServices :
          cs.caregiver = caregiver /\ cs.service_type = code /\ cs.is_active }

\* a validate without the duration cap
ValidateCreate_no_cap(rows, clock, attrs) ==
    LET owner == ownerprofile(attrs.user)
        start == attrs.start_datetime
        end == start + attrs.duration_minutes
    IN  IF owner = NoProfile THEN "Only owners can create bookings"
        ELSE IF ~(attrs.pet_id \in DOMAIN Pets /\ Pets[attrs.pet_id] = owner)
            THEN "Pet not found"
        ELSE IF attrs.caregiver_id \notin Caregivers THEN "Caregiver not found"
        ELSE IF attrs.service_type_code \notin DOMAIN ServiceTypes
            THEN "Service type not found"
        ELSE IF ActiveService(attrs.caregiver_id, attrs.service_type_code) = {}
            THEN "Caregiver does not offer this service"
        ELSE IF start < clock THEN "Start time must be in the future"
        ELSE IF ~is_caregiver_available(rows, attrs.caregiver_id, start, end)
            THEN "Caregiver is not available for the selected time"
        ELSE ""

\* a validate that also refuses a start equal to the current time
ValidateCreate_start_now_refused(rows, clock, attrs) ==
    LET owner == ownerprofile(attrs.user)
        start == attrs.start_datetime
        duration == attrs.duration_minutes
        end == start + duration
    IN  IF owner = NoProfile THEN "Only owners can create bookings"
        ELSE IF ~(attrs.pet_id \in DOMAIN Pets /\ Pets[attrs.pet_id] = owner)
            THEN "Pet not found"
        ELSE IF attrs.caregiver_id \notin Caregivers THEN "Caregiver not found"
        ELSE IF attrs.service_type_code \notin DOMAIN ServiceTypes
            THEN "Service type not found"
        ELSE IF ActiveService(attrs.caregiver_id, attrs.service_type_code) = {}
            THEN "Caregiver does not offer this service"
        ELSE IF start <= clock THEN "Start time must be in the future"
        ELSE IF duration > ServiceTypes[attrs.service_type_code].base_duration_minutes * 4
            THEN "Duration exceeds allowed maximum for service type"
        ELSE IF ~is_caregiver_available(rows, attrs.caregiver_id, start, end)
            THEN "Caregiver is not available for the selected time"
        ELSE ""

\* a validate whose duration cap refuses the cap itself
ValidateCreate_cap_exclusive(rows, clock, attrs) ==
    LET owner == ownerprofile(attrs.user)
        start == attrs.start_datetime
        duration == attrs.duration_minutes
        end == start + duration
    IN  IF owner = NoProfile THEN "Only owners can create bookings"
        ELSE IF ~(attrs.pet_id \in DOMAIN Pets /\ Pets[attrs.pet_id] = owner)
            THEN "Pet not found"
        ELSE IF attrs.caregiver_id \notin Caregivers THEN "Caregiver not found"
        ELSE IF attrs.service_type_code \notin DOMAIN ServiceTypes
            THEN "Service type not found"
        ELSE IF ActiveService(attrs.caregiver_id, attrs.service_type_code) = {}
            THEN "Caregiver does not offer this service"
        ELSE IF start < clock THEN "Start time must be in the future"
        ELSE IF duration >= ServiceTypes[attrs.service_type_code].base_duration_minutes * 4
            THEN "Duration exceeds allowed maximum for service type"
        ELSE IF ~is_caregiver_available(rows, attrs.caregiver_id, start, end)
            THEN "Caregiver is not available for the selected time"
        ELSE ""

\* the ValidationError validate raises on attrs, or "" when it returns
ValidateCreate(rows, clock, attrs) ==
    LET owner == ownerprofile(attrs.user)
        start == attrs.start_datetime
        duration == attrs.duration_minutes
        end == start + duration
    IN  IF owner = NoProfile THEN "Only owners can create bookings"
        ELSE IF ~(attrs.pet_id \in DOMAIN Pets /\ Pets[attrs.pet_id] = owner)
            THEN "Pet not found"
        ELSE IF attrs.caregiver_id \notin Caregivers THEN "Caregiver not found"
        ELSE IF attrs.service_type_code \notin DOMAIN ServiceTypes
            THEN "Service type not found"
        ELSE IF ActiveService(attrs.caregiver_id, attrs.service_type_code) = {}
            THEN "Caregiver does not offer this service"
        ELSE IF start < clock THEN "Start time must be in the future"
        ELSE IF duration > ServiceTypes[attrs.service_type_code].base_duration_minutes * 4
            THEN "Duration exceeds allowed maximum for service type"
        ELSE IF ~is_caregiver_available(rows, attrs.caregiver_id, start, end)
            THEN "Caregiver is not available for the selected time"
        ELSE ""

\* a create that takes status and price from the request body
NewBookingFromBody(attrs) ==
    LET cs == CHOOSE x \in ActiveService(attrs.caregiver_id, attrs.service_type_code) : TRUE
        split == compute_commission(cs.price_per_unit)
    IN  [owner |-> ownerprofile(attrs.user),
         pet |-> attrs.pet_id,
         caregiver |-> attrs.caregiver_id,
         service_type |-> attrs.service_type_code,
         start_datetime |-> attrs.start_datetime,
         end_datetime |-> attrs.start_datetime + attrs.duration_minutes,
         duration_minutes |-> attrs.duration_minutes,
         status |-> IF attrs.extra.status = "" THEN STATUS_PENDING ELSE attrs.extra.status,
         payment_status |-> PAYMENT_PENDING,
         price_subtotal |-> IF attrs.extra.price_subtotal < 0 THEN cs.price_per_unit
                            ELSE attrs.extra.price_subtotal,
         platform_fee |-> split.platform_fee,
         caregiver_earnings |-> split.caregiver_earnings]

\* the row validate's attrs.update and Booking's field defaults produce
NewBooking(attrs) ==
    LET cs == CHOOSE x \in ActiveService(attrs.caregiver_id, attrs.service_type_code) : TRUE
        split == compute_commission(cs.price_per_unit)
    IN  [owner |-> ownerprofile(attrs.user),
         pet |-> attrs.pet_id,
         caregiver |-> attrs.caregiver_id,
         service_type |-> attrs.service_type_code,
         start_datetime |-> attrs.start_datetime,
         end_datetime |-> attrs.start_datetime + attrs.duration_minutes,
         duration_minutes |-> attrs.duration_minutes,
         status |-> STATUS_PENDING,
         payment_status |-> PAYMENT_PENDING,
         price_subtotal |-> cs.price_per_unit,
         platform_fee |-> split.platform_fee,
         caregiver_earnings |-> split.caregiver_earnings]

\* INSERT of a row under a fresh id
Insert(rows, id, row) == [i \in DOMAIN rows \cup {id} |-> IF i = id THEN row ELSE rows[i]]

CreateBooking(attrs, clock) ==
    LET error == ValidateCreate(bookings, clock, attrs)
    IN  IF error # ""
        THEN /\ last' = Outcome("create", "ValidationError")
             /\ UNCHANGED <<cfgVars, reviewVars, dbVars, updates, commission, procs>>
        ELSE /\ nextId <= MaxBookings
             /\ bookings' = Insert(bookings, nextId, NewBooking(attrs))
             /\ nextId' = nextId + 1
             /\ last' = Outcome("create", "ok")
             /\ UNCHANGED <<cfgVars, reviewVars, ledger, updates, commission, procs>>

(***************************************************************************)
(* BookingViewSet.get_queryset and get_object (views.py 173-183): the row  *)
(* a request may address, by the requesting user and the query parameters  *)
(* ?as=caregiver and ?status=.                                             *)
(***************************************************************************)
InQueryset(rows, b, user, as_caregiver, status_filter) ==
    /\ b \in DOMAIN rows
    /\ IF as_caregiver THEN caregiver_user(rows[b].caregiver) = user
       ELSE owner_user(rows[b].owner) = user
    /\ status_filter # "" => rows[b].status = status_filter

BookingIds == 1..MaxBookings

\* who asks, and with which query parameters: <<user, ?as=caregiver, ?status=>>
Callers ==
    { <<"owner", FALSE, "">>, <<"owner", FALSE, STATUS_PENDING>>,
      <<"care1", TRUE, "">>, <<"care2", TRUE, "">>, <<"other", FALSE, "">> }

\* a permission test that lets everyone who can address the booking through
MayChange_whoever_finds_it(action, row, user) == TRUE

\* the permission test of accept, reject and complete (views.py 188, 196, 212)
\* and of cancel (views.py 204)
MayChange(action, row, user) ==
    IF action = "cancel"
    THEN user \in {owner_user(row.owner), caregiver_user(row.caregiver)}
    ELSE caregiver_user(row.caregiver) = user

\* the status each action asks change_status for (views.py 190, 198, 206, 214)
ActionTarget(action) ==
    CASE action = "accept" -> STATUS_ACCEPTED
      [] action = "reject" -> STATUS_REJECTED
      [] action = "cancel" -> STATUS_CANCELLED
      [] action = "complete" -> STATUS_COMPLETED
StatusActions == {"accept", "reject", "cancel", "complete"}

(***************************************************************************)
(* POST /bookings/{id}/accept|reject|cancel|complete/ (views.py 185-215).  *)
(***************************************************************************)
StatusRequest(action, user, as_caregiver, status_filter, b) ==
    IF ~InQueryset(bookings, b, user, as_caregiver, status_filter)
    THEN /\ last' = Outcome("status_request", "404")
         /\ UNCHANGED <<cfgVars, reviewVars, dbVars, updates, commission, procs>>
    ELSE IF ~MayChange(action, bookings[b], user)
    THEN /\ last' = Outcome("status_request", "403")
         /\ UNCHANGED <<cfgVars, reviewVars, dbVars, updates, commission, procs>>
    ELSE LET r == change_status(bookings[b], ActionTarget(action))
         IN  IF r.raised
             THEN /\ last' = Outcome("status_request", "ValueError")
                  /\ UNCHANGED <<cfgVars, reviewVars, dbVars, updates, commission, procs>>
             ELSE /\ bookings' = SaveFields(bookings, b, r.self, {"status"})
                  /\ last' = Outcome("status_request", "ok")
                  /\ UNCHANGED <<cfgVars, reviewVars, nextId, ledger, updates, commission, procs>>

(***************************************************************************)
(* Booking.change_status called on a freshly loaded booking with any       *)
(* target status (models.py 199-205).                                      *)
(***************************************************************************)
ChangeStatus(b, new_status) ==
    /\ b \in DOMAIN bookings
    /\ LET r == change_status(bookings[b], new_status)
       IN  IF r.raised
           THEN /\ last' = Outcome("change_status", "ValueError")
                /\ UNCHANGED <<cfgVars, reviewVars, dbVars, updates, commission, procs>>
           ELSE /\ bookings' = SaveFields(bookings, b, r.self, {"status"})
                /\ last' = Outcome("change_status", "ok")
                /\ UNCHANGED <<cfgVars, reviewVars, nextId, ledger, updates, commission, procs>>

(***************************************************************************)
(* Booking.mark_paid (models.py 207-219), one transaction.                 *)
(***************************************************************************)
\* an entry of the booking's price instead of the caregiver's earnings
LedgerEntry_price_subtotal(b, row) ==
    [booking |-> b,
     user |-> caregiver_user(row.caregiver),
     direction |-> DIRECTION_CREDIT,
     amount |-> row.price_subtotal,
     description |-> "Booking payout"]

LedgerEntry(b, row) ==
    [booking |-> b,
     user |-> caregiver_user(row.caregiver),
     direction |-> DIRECTION_CREDIT,
     amount |-> row.caregiver_earnings,
     description |-> "Booking payout"]

\* a mark_paid without its early return
MarkPaid_no_early_return(b) ==
    /\ b \in DOMAIN bookings
    /\ LET self == [bookings[b] EXCEPT !.payment_status = PAYMENT_PAID]
       IN  /\ bookings' = SaveFields(bookings, b, self, {"payment_status"})
           /\ ledger' = Append(ledger, LedgerEntry(b, self))
           /\ last' = Outcome("mark_paid", "ok")
           /\ UNCHANGED <<cfgVars, reviewVars, nextId, updates, commission, procs>>

MarkPaid(b) ==
    /\ b \in DOMAIN bookings
    /\ IF bookings[b].payment_status = PAYMENT_PAID
       THEN /\ last' = Outcome("mark_paid", "noop")
            /\ UNCHANGED <<cfgVars, reviewVars, dbVars, updates, commission, procs>>
       ELSE LET self == [bookings[b] EXCEPT !.payment_status = PAYMENT_PAID]
            IN  /\ bookings' = SaveFields(bookings, b, self, {"payment_status"})
                /\ ledger' = Append(ledger, LedgerEntry(b, self))
                /\ last' = Outcome("mark_paid", "ok")
                /\ UNCHANGED <<cfgVars, reviewVars, nextId, updates, commission, procs>>

(***************************************************************************)
(* PATCH /bookings/{id}/: ModelViewSet.partial_update through              *)
(* BookingDetailSerializer (serializers.py 221-229), whose fields are      *)
(* '__all__' with only owner, caregiver, pet and service_type read-only.   *)
(***************************************************************************)
PatchInputs ==
    ({"status"} \X {STATUS_PENDING, STATUS_COMPLETED})
    \cup ({"payment_status"} \X {PAYMENT_PENDING, PAYMENT_REFUNDED})
    \cup ({"price_subtotal", "platform_fee", "caregiver_earnings"} \X {0})
    \cup ({"start_datetime", "end_datetime"} \X {MaxStart})
    \cup ({"duration_minutes"} \X {0})

PartialUpdate(user, as_caregiver, status_filter, b, field, value) ==
    IF ~InQueryset(bookings, b, user, as_caregiver, status_filter)
    THEN /\ last' = Outcome("update", "404")
         /\ UNCHANGED <<cfgVars, reviewVars, dbVars, updates, commission, procs>>
    ELSE /\ updates < MaxUpdates
         /\ bookings' = [bookings EXCEPT ![b][field] = value]
         /\ updates' = updates + 1
         /\ last' = Outcome("update", "ok")
         /\ UNCHANGED <<cfgVars, reviewVars, nextId, ledger, commission, procs>>

(***************************************************************************)
(* DELETE /bookings/{id}/: ModelViewSet.destroy.  TransactionLog.booking   *)
(* is on_delete=SET_NULL (models.py 292) and Review.booking is             *)
(* on_delete=CASCADE (models.py 249).                                      *)
(***************************************************************************)
Destroy(user, as_caregiver, status_filter, b) ==
    IF ~InQueryset(bookings, b, user, as_caregiver, status_filter)
    THEN /\ last' = Outcome("delete", "404")
         /\ UNCHANGED <<cfgVars, reviewVars, dbVars, updates, commission, procs>>
    ELSE /\ updates < MaxUpdates
         /\ bookings' = [i \in DOMAIN bookings \ {b} |-> bookings[i]]
         /\ ledger' = [i \in DOMAIN ledger |->
                          IF ledger[i].booking = b THEN [ledger[i] EXCEPT !.booking = 0]
                          ELSE ledger[i]]
         /\ reviews' = { r \in reviews : r.booking # b }
         /\ updates' = updates + 1
         /\ last' = Outcome("delete", "ok")
         /\ UNCHANGED <<cfgVars, ratings, coalesce_raises, nextId, commission, procs>>

CoreNext ==
    \/ \E attrs \in CreateRequests, clock \in Clock : CreateBooking(attrs, clock)
    \/ \E action \in StatusActions, c \in Callers, b \in BookingIds :
          StatusRequest(action, c[1], c[2], c[3], b)
    \/ \E b \in BookingIds, new_status \in STATUS_CHOICES : ChangeStatus(b, new_status)

Next ==
    \/ \E attrs \in ApiCreateRequests, clock \in Clock : CreateBooking(attrs, clock)
    \/ \E action \in StatusActions, c \in Callers, b \in BookingIds :
          StatusRequest(action, c[1], c[2], c[3], b)
    \/ \E b \in BookingIds : MarkPaid(b)
    \/ \E c \in Callers, b \in BookingIds, p \in PatchInputs :
          PartialUpdate(c[1], c[2], c[3], b, p[1], p[2])
    \/ \E c \in Callers, b \in BookingIds : Destroy(c[1], c[2], c[3], b)

\* every request of the booking endpoint and mark_paid, one at a time
Spec == Init /\ [][Next]_vars

\* the booking state machine and booking creation only
SpecCore == Init /\ [][CoreNext]_vars

\* the core with payments
PayNext ==
    \/ CoreNext
    \/ \E b \in BookingIds : MarkPaid(b)

SpecPay == Init /\ [][PayNext]_vars

(***************************************************************************)
(* compute_commission called directly (tests.py 85, 107), for each         *)
(* configured rate.                                                        *)
(***************************************************************************)
Rates == {0, 100, 125, 150, 1000}
Amounts == 0..MaxAmount

ComputeCommission(amount) ==
    /\ LET split == compute_commission(amount)
       IN  commission' = [amount |-> amount,
                          platform_fee |-> split.platform_fee,
                          caregiver_earnings |-> split.caregiver_earnings]
    /\ UNCHANGED <<cfgVars, reviewVars, dbVars, updates, last, procs>>

InitCommission ==
    /\ PLATFORM_FEE_PERCENT \in Rates
    /\ availabilities = FixtureAvailabilities
    /\ time_off = FixtureTimeOff
    /\ InitDb

NextCommission == \E amount \in Amounts : ComputeCommission(amount)

SpecCommission == InitCommission /\ [][NextCommission]_vars

(***************************************************************************)
(* Requests served by two workers at once.  A request reads and writes the *)
(* database in the statements of its handler, one at a time: a create      *)
(* validates (serializer.is_valid) and then inserts (serializer.save); a   *)
(* status request loads the booking (get_object) and then runs             *)
(* change_status on its copy.                                              *)
(***************************************************************************)
ConcCreateRequests ==
    { CreateRequest("owner", "p1", "c1", "walk", s, 1, NoExtra) : s \in {0, 1} }
    \cup { CreateRequest("owner", "p1", "c1", "walk", 0, DurationCap("walk"), NoExtra) }
ConcCallers == { <<"care1", TRUE, "">>, <<"owner", FALSE, "">> }

InFlightCreates == Cardinality({p \in Workers : procs[p].pc = "validated"})

CreateValidate(p, attrs, clock) ==
    /\ procs[p].pc = "idle"
    /\ LET error == ValidateCreate(bookings, clock, attrs)
       IN  IF error # ""
           THEN /\ last' = Outcome("create", "ValidationError")
                /\ UNCHANGED <<cfgVars, reviewVars, dbVars, updates, commission, procs>>
           ELSE /\ nextId + InFlightCreates <= MaxBookings
                /\ procs' = [procs EXCEPT ![p] = [pc |-> "validated", attrs |-> attrs]]
                /\ UNCHANGED <<cfgVars, reviewVars, dbVars, updates, commission, last>>

CreateInsert(p) ==
    /\ procs[p].pc = "validated"
    /\ bookings' = Insert(bookings, nextId, NewBooking(procs[p].attrs))
    /\ nextId' = nextId + 1
    /\ procs' = [procs EXCEPT ![p] = Idle]
    /\ last' = Outcome("create", "ok")
    /\ UNCHANGED <<cfgVars, reviewVars, ledger, updates, commission>>

StatusLoad(p, action, user, as_caregiver, status_filter, b) ==
    /\ procs[p].pc = "idle"
    /\ IF ~InQueryset(bookings, b, user, as_caregiver, status_filter)
       THEN /\ last' = Outcome("status_request", "404")
            /\ UNCHANGED <<cfgVars, reviewVars, dbVars, updates, commission, procs>>
       ELSE IF ~MayChange(action, bookings[b], user)
       THEN /\ last' = Outcome("status_request", "403")
            /\ UNCHANGED <<cfgVars, reviewVars, dbVars, updates, commission, procs>>
       ELSE /\ procs' = [procs EXCEPT ![p] =
                            [pc |-> "loaded", b |-> b, self |-> bookings[b],
                             target |-> ActionTarget(action)]]
            /\ UNCHANGED <<cfgVars, reviewVars, dbVars, updates, commission, last>>

StatusSave(p) ==
    /\ procs[p].pc = "loaded"
    /\ LET r == change_status(procs[p].self, procs[p].target)
       IN  IF r.raised
           THEN /\ last' = Outcome("status_request", "ValueError")
                /\ procs' = [procs EXCEPT ![p] = Idle]
                /\ UNCHANGED <<cfgVars, reviewVars, dbVars, updates, commission>>
           ELSE /\ bookings' = SaveFields(bookings, procs[p].b, r.self, {"status"})
                /\ last' = Outcome("status_request", "ok")
                /\ procs' = [procs EXCEPT ![p] = Idle]
                /\ UNCHANGED <<cfgVars, reviewVars, nextId, ledger, updates, commission>>

ConcNext ==
    \/ \E p \in Workers, attrs \in ConcCreateRequests, clock \in Clock :
          CreateValidate(p, attrs, clock)
    \/ \E p \in Workers : CreateInsert(p)
    \/ \E p \in Workers, action \in StatusActions, c \in ConcCallers, b \in BookingIds :
          StatusLoad(p, action, c[1], c[2], c[3], b)
    \/ \E p \in Workers : StatusSave(p)

SpecConc == Init /\ [][ConcNext]_vars

(***************************************************************************)
(* Bookings are created and paid, one request at a time, each mark_paid    *)
(* on a freshly loaded booking.                                            *)
(***************************************************************************)
BillingNext ==
    \/ \E attrs \in CreateRequests, clock \in Clock : CreateBooking(attrs, clock)
    \/ \E b \in BookingIds : MarkPaid(b)

SpecBilling == Init /\ [][BillingNext]_vars

(***************************************************************************)
(* mark_paid on loaded Booking objects (models.py 207-219).  A worker      *)
(* loads a booking (Booking.objects.get), calls mark_paid on its copy any  *)
(* number of times and drops it.  mark_paid tests and assigns the copy's   *)
(* payment_status; its two writes are one transaction, so when the         *)
(* TransactionLog insert raises, the UPDATE of the booking is rolled back, *)
(* while the assignment to the copy stays.                                 *)
(***************************************************************************)
PayLoad(p, b) ==
    /\ procs[p].pc = "idle"
    /\ b \in DOMAIN bookings
    /\ procs' = [procs EXCEPT ![p] = [pc |-> "held", b |-> b, self |-> bookings[b]]]
    /\ UNCHANGED <<cfgVars, reviewVars, dbVars, updates, commission, last>>

PayCall(p, insert_raises) ==
    /\ procs[p].pc = "held"
    /\ LET b == procs[p].b
           self == procs[p].self
       IN  IF self.payment_status = PAYMENT_PAID
           THEN /\ last' = Outcome("mark_paid", "noop")
                /\ UNCHANGED <<cfgVars, reviewVars, dbVars, updates, commission, procs>>
           ELSE LET paid == [self EXCEPT !.payment_status = PAYMENT_PAID]
                IN  /\ procs' = [procs EXCEPT ![p].self = paid]
                    /\ IF insert_raises
                       THEN /\ last' = Outcome("mark_paid", "DatabaseError")
                            /\ UNCHANGED <<cfgVars, reviewVars, dbVars, updates, commission>>
                       ELSE /\ bookings' = SaveFields(bookings, b, paid, {"payment_status"})
                            /\ ledger' = Append(ledger, LedgerEntry(b, paid))
                            /\ last' = Outcome("mark_paid", "ok")
                            /\ UNCHANGED <<cfgVars, reviewVars, nextId, updates, commission>>

PayDrop(p) ==
    /\ procs[p].pc = "held"
    /\ procs' = [procs EXCEPT ![p] = Idle]
    /\ UNCHANGED <<cfgVars, reviewVars, dbVars, updates, commission, last>>

PayObjNext ==
    \/ \E attrs \in ApiCreateRequests, clock \in Clock : CreateBooking(attrs, clock)
    \/ \E p \in Workers, b \in BookingIds : PayLoad(p, b)
    \/ \E p \in Workers, insert_raises \in BOOLEAN : PayCall(p, insert_raises)
    \/ \E p \in Workers : PayDrop(p)

SpecPayObj == Init /\ [][PayObjNext]_vars

(***************************************************************************)
(* Reviews and the rating aggregate (models.py 67-75, 248-262).  A Review  *)
(* row has a uuid4 id (models.py 21); the model hands out the token        *)
(* <<booking, n>> with the least unused n, so that the order in which rows *)
(* were created is not part of the state.                                  *)
(***************************************************************************)
Ratings == {3, 4, 5}

FreshReviewId(rows, booking) ==
    LET used == { r.id[2] : r \in { x \in rows : x.id[1] = booking } }
    IN  <<booking, CHOOSE n \in 1..(Cardinality(used) + 1) :
                      n \notin used /\ \A m \in 1..(n - 1) : m \in used>>

\* Review.objects.filter(target_caregiver=self)
ReviewsOf(rows, caregiver) == { r \in rows : r.target_caregiver = caregiver }

RECURSIVE SumRatings(_)
SumRatings(rows) ==
    IF rows = {} THEN 0
    ELSE LET r == CHOOSE x \in rows : TRUE
         IN  r.rating + SumRatings(rows \ {r})

\* an aggregate over every review, whoever its target is
recalc_ratings_all_reviews(rows, caregiver) ==
    LET count == Cardinality(rows)
    IN  [rating_average |-> IF count = 0 THEN 0
                            ELSE QuantizeCents(100 * SumRatings(rows), count),
         rating_count |-> count]

\* CaregiverProfile.recalc_ratings (models.py 67-75) once its aggregate query
\* has been evaluated: Avg and Count over the caregiver's reviews, the average
\* quantized to 0.01, and 0.00 when there is none
recalc_ratings(rows, caregiver) ==
    LET mine == ReviewsOf(rows, caregiver)
        count == Cardinality(mine)
    IN  [rating_average |-> IF count = 0 THEN 0
                            ELSE QuantizeCents(100 * SumRatings(mine), count),
         rating_count |-> count]

\* a validate that does not look at the booking's status
ValidateReview_any_status(rows, attrs) ==
    IF attrs.booking \notin DOMAIN bookings THEN "Invalid pk"
    ELSE IF attrs.rating \notin 1..5 THEN "Ensure this value is between 1 and 5"
    ELSE IF \E r \in rows : r.booking = attrs.booking
    THEN "A review already exists for this booking"
    ELSE ""

\* the field validation of ReviewSerializer (booking resolves, rating within
\* its validators, models.py 251) and ReviewSerializer.validate
\* (serializers.py 273-280); the error message, or "" when the data is valid
ValidateReview(rows, attrs) ==
    IF attrs.booking \notin DOMAIN bookings THEN "Invalid pk"
    ELSE IF attrs.rating \notin 1..5 THEN "Ensure this value is between 1 and 5"
    ELSE IF bookings[attrs.booking].status # STATUS_COMPLETED
    THEN "Reviews are only allowed for completed bookings"
    ELSE IF \E r \in rows : r.booking = attrs.booking
    THEN "A review already exists for this booking"
    ELSE ""

\* the row ReviewSerializer.create stores (serializers.py 279, 282-284)
NewReview(rows, user, attrs) ==
    [id |-> FreshReviewId(rows, attrs.booking),
     booking |-> attrs.booking,
     author |-> user,
     target_caregiver |-> bookings[attrs.booking].caregiver,
     rating |-> attrs.rating]

\* a save that recomputes whenever the review has a target
recalc_calls_on_every_save(self, is_new) ==
    IF self.target_caregiver # NoProfile THEN 1 ELSE 0

\* the calls of recalc_ratings one Review.save makes (models.py 259-262):
\* one when the row is new (self._state.adding) and has a target caregiver
recalc_calls(self, is_new) ==
    IF is_new /\ self.target_caregiver # NoProfile THEN 1 ELSE 0

\* the outcome of a request of the review endpoint, with the calls of
\* recalc_ratings it made
ReviewOutcome(op, result, calls) == [op |-> op, result |-> result, recalc_calls |-> calls]

(***************************************************************************)
(* POST /reviews/: validate, then Review.save (models.py 258-262), which   *)
(* inserts the row and, the row being new, runs recalc_ratings on its      *)
(* target.  The aggregate is Coalesce(Avg('rating'), 0) (models.py 70-72): *)
(* its operands are a FloatField and an IntegerField, which the ORM        *)
(* rejects with FieldError from Django 3.2 on and evaluates before; the    *)
(* installed version is not part of the repository, so either may be the   *)
(* case (coalesce_raises).  The insert is not in the transaction of        *)
(* recalc_ratings, so the row stays when recalc_ratings raises.            *)
(***************************************************************************)
CreateReview(user, b, rating) ==
    LET attrs == [booking |-> b, rating |-> rating]
        error == ValidateReview(reviews, attrs)
    IN  IF error # ""
        THEN /\ last' = ReviewOutcome("create_review", "ValidationError", 0)
             /\ UNCHANGED <<cfgVars, reviewVars, dbVars, updates, commission, procs>>
        ELSE LET row == NewReview(reviews, user, attrs)
                 calls == recalc_calls(row, TRUE)
             IN  /\ reviews' = reviews \cup {row}
                 /\ IF calls = 0
                    THEN /\ last' = ReviewOutcome("create_review", "ok", calls)
                         /\ UNCHANGED ratings
                    ELSE IF coalesce_raises
                    THEN /\ last' = ReviewOutcome("create_review", "FieldError", calls)
                         /\ UNCHANGED ratings
                    ELSE /\ ratings' = [ratings EXCEPT ![row.target_caregiver] =
                                           recalc_ratings(reviews', row.target_caregiver)]
                         /\ last' = ReviewOutcome("create_review", "ok", calls)
                 /\ UNCHANGED <<cfgVars, coalesce_raises, dbVars, updates, commission, procs>>

(***************************************************************************)
(* Databases that already hold bookings, as create_booking and the status  *)
(* actions leave them: booking i is the owner's, of the given caregiver,   *)
(* in the given status, in a slot of its own.                              *)
(***************************************************************************)
FixtureBooking(i, caregiver, status) ==
    [NewBooking(CreateRequest("owner", "p1", caregiver, "walk", i - 1, 1, NoExtra))
        EXCEPT !.status = status]

InitWithBookings(rows) ==
    /\ PLATFORM_FEE_PERCENT = 150
    /\ availabilities = FixtureAvailabilities
    /\ time_off = FixtureTimeOff
    /\ bookings = rows
    /\ nextId = Len(rows) + 1
    /\ ledger = <<>>
    /\ updates = 0
    /\ last = Outcome("init", "ok")
    /\ commission = NoCommission
    /\ procs = [p \in Workers |-> Idle]
    /\ reviews = {}
    /\ ratings = NoRatings

\* completed bookings only: the last one c2's, the others c1's
CompletedBookings ==
    [i \in 1..MaxReviewBookings |->
        FixtureBooking(i, IF i = MaxReviewBookings THEN "c2" ELSE "c1", STATUS_COMPLETED)]

InitRatings ==
    /\ InitWithBookings(CompletedBookings)
    /\ coalesce_raises \in BOOLEAN

\* reviews are created, one request at a time
RatingsNext ==
    \E b \in 1..MaxReviewBookings, rating \in Ratings : CreateReview("owner", b, rating)

SpecRatings == InitRatings /\ [][RatingsNext]_vars

(***************************************************************************)
(* PUT or PATCH /reviews/{id}/ (ReviewViewSet is a ModelViewSet over every *)
(* review, views.py 240-249).  validate reads attrs['booking']             *)
(* (serializers.py 274): a body without booking (b = 0) ends in KeyError;  *)
(* with a booking the checks of create apply, so only a completed booking  *)
(* without review passes, and the row is moved to it.  The saved row is    *)
(* not new, so Review.save does not recompute (models.py 259-262).         *)
(***************************************************************************)
UpdateReview(id, b, rating) ==
    IF ~\E r \in reviews : r.id = id
    THEN /\ last' = ReviewOutcome("update_review", "404", 0)
         /\ UNCHANGED <<cfgVars, reviewVars, dbVars, updates, commission, procs>>
    ELSE IF b = 0
    THEN /\ last' = ReviewOutcome("update_review", "KeyError", 0)
         /\ UNCHANGED <<cfgVars, reviewVars, dbVars, updates, commission, procs>>
    ELSE IF ValidateReview(reviews, [booking |-> b, rating |-> rating]) # ""
    THEN /\ last' = ReviewOutcome("update_review", "ValidationError", 0)
         /\ UNCHANGED <<cfgVars, reviewVars, dbVars, updates, commission, procs>>
    ELSE LET row == CHOOSE r \in reviews : r.id = id
             saved == [row EXCEPT !.booking = b,
                                  !.target_caregiver = bookings[b].caregiver,
                                  !.rating = rating]
             calls == recalc_calls(saved, FALSE)
         IN  /\ updates < MaxUpdates
             /\ reviews' = (reviews \ {row}) \cup {saved}
             /\ updates' = updates + 1
             /\ IF calls = 0
                THEN /\ last' = ReviewOutcome("update_review", "ok", calls)
                     /\ UNCHANGED ratings
                ELSE IF coalesce_raises
                THEN /\ last' = ReviewOutcome("update_review", "FieldError", calls)
                     /\ UNCHANGED ratings
                ELSE /\ ratings' = [ratings EXCEPT ![saved.target_caregiver] =
                                       recalc_ratings(reviews', saved.target_caregiver)]
                     /\ last' = ReviewOutcome("update_review", "ok", calls)
             /\ UNCHANGED <<cfgVars, coalesce_raises, dbVars, commission, procs>>

(***************************************************************************)
(* DELETE /reviews/{id}/: ModelViewSet.destroy; nothing recomputes.        *)
(***************************************************************************)
DestroyReview(id) ==
    IF ~\E r \in reviews : r.id = id
    THEN /\ last' = ReviewOutcome("delete_review", "404", 0)
         /\ UNCHANGED <<cfgVars, reviewVars, dbVars, updates, commission, procs>>
    ELSE /\ updates < MaxUpdates
         /\ reviews' = { r \in reviews : r.id # id }
         /\ updates' = updates + 1
         /\ last' = ReviewOutcome("delete_review", "ok", 0)
         /\ UNCHANGED <<cfgVars, ratings, coalesce_raises, dbVars, commission, procs>>

\* the last booking is c2's, the others c1's; every booking may be in any status
StatusFixtures ==
    { rows \in [BookingIds -> { FixtureBooking(i, c, s) :
                                  i \in BookingIds, c \in Caregivers, s \in STATUS_CHOICES }] :
        \A i \in BookingIds :
            /\ rows[i].caregiver = (IF i = MaxBookings THEN "c2" ELSE "c1")
            /\ rows[i].start_datetime = i - 1 }

InitReview ==
    /\ PLATFORM_FEE_PERCENT = 150
    /\ \E rows \in StatusFixtures : InitWithBookings(rows)
    /\ coalesce_raises \in BOOLEAN

\* the ids a request may name: those of the stored reviews, and one more
ReviewIds == { r.id : r \in reviews } \cup {<<1, 2>>}
ReviewUsers == {"owner", "other"}
\* the ratings of the requests: two the validators accept, one they reject
ReviewRatings == {3, 5, 6}

\* every request of the review endpoint, one at a time
ReviewNext ==
    \/ \E user \in ReviewUsers, b \in BookingIds \cup {MaxBookings + 1}, rating \in ReviewRatings :
          CreateReview(user, b, rating)
    \/ \E id \in ReviewIds, b \in {0} \cup BookingIds, rating \in ReviewRatings \cap Ratings :
          UpdateReview(id, b, rating)
    \/ \E id \in ReviewIds : DestroyReview(id)

SpecReview == InitReview /\ [][ReviewNext]_vars

\* the same under an ORM that evaluates the aggregate
InitReviewEvaluated ==
    /\ InitReview
    /\ coalesce_raises = FALSE

SpecReviewEvaluated == InitReviewEvaluated /\ [][ReviewNext]_vars

(***************************************************************************)
(* POST /reviews/ served by two workers at once.  A request validates      *)
(* (serializer.is_valid), inserts the row (Review.save, models.py 260),    *)
(* and then runs recalc_ratings (models.py 67-75): the aggregate query,    *)
(* then the save of the two fields.  recalc_ratings is one transaction,    *)
(* which under the database's default isolation (read committed) neither   *)
(* locks the caregiver's row before the query nor hides rows committed by  *)
(* others, so the statements of two requests interleave.  Review.booking   *)
(* is a OneToOneField (models.py 249): the INSERT of a second row for a    *)
(* booking violates its unique constraint.                                 *)
(***************************************************************************)
RevValidate(p, user, b, rating) ==
    /\ procs[p].pc = "idle"
    /\ LET attrs == [booking |-> b, rating |-> rating]
       IN  IF ValidateReview(reviews, attrs) # ""
           THEN /\ last' = Outcome("create_review", "ValidationError")
                /\ UNCHANGED <<cfgVars, reviewVars, dbVars, updates, commission, procs>>
           ELSE /\ procs' = [procs EXCEPT ![p] =
                                [pc |-> "review_validated", user |-> user, attrs |-> attrs]]
                /\ UNCHANGED <<cfgVars, reviewVars, dbVars, updates, commission, last>>

\* an INSERT into a table without the unique constraint
RevInsert_no_unique(p) ==
    /\ procs[p].pc = "review_validated"
    /\ LET row == NewReview(reviews, procs[p].user, procs[p].attrs)
       IN  /\ reviews' = reviews \cup {row}
           /\ procs' = [procs EXCEPT ![p] =
                           [pc |-> "review_inserted", caregiver |-> row.target_caregiver]]
    /\ UNCHANGED <<cfgVars, ratings, coalesce_raises, dbVars, updates, commission, last>>

RevInsert(p) ==
    /\ procs[p].pc = "review_validated"
    /\ IF \E r \in reviews : r.booking = procs[p].attrs.booking
       THEN /\ last' = Outcome("create_review", "IntegrityError")
            /\ procs' = [procs EXCEPT ![p] = Idle]
            /\ UNCHANGED <<cfgVars, reviewVars, dbVars, updates, commission>>
       ELSE /\ LET row == NewReview(reviews, procs[p].user, procs[p].attrs)
               IN  /\ reviews' = reviews \cup {row}
                   /\ procs' = [procs EXCEPT ![p] =
                                   [pc |-> "review_inserted", caregiver |-> row.target_caregiver]]
            /\ UNCHANGED <<cfgVars, ratings, coalesce_raises, dbVars, updates, commission, last>>

RevAggregate(p) ==
    /\ procs[p].pc = "review_inserted"
    /\ IF coalesce_raises
       THEN /\ last' = Outcome("create_review", "FieldError")
            /\ procs' = [procs EXCEPT ![p] = Idle]
            /\ UNCHANGED <<cfgVars, reviewVars, dbVars, updates, commission>>
       ELSE /\ procs' = [procs EXCEPT ![p] =
                            [pc |-> "aggregated", caregiver |-> procs[p].caregiver,
                             self |-> recalc_ratings(reviews, procs[p].caregiver)]]
            /\ UNCHANGED <<cfgVars, reviewVars, dbVars, updates, commission, last>>

RevSaveRatings(p) ==
    /\ procs[p].pc = "aggregated"
    /\ ratings' = [ratings EXCEPT ![procs[p].caregiver] = procs[p].self]
    /\ procs' = [procs EXCEPT ![p] = Idle]
    /\ last' = Outcome("create_review", "ok")
    /\ UNCHANGED <<cfgVars, reviews, coalesce_raises, dbVars, updates, commission>>

\* completed bookings of c1, one for each booking id
CompletedOfC1 == [i \in BookingIds |-> FixtureBooking(i, "c1", STATUS_COMPLETED)]

InitReviewConc ==
    /\ InitWithBookings(CompletedOfC1)
    /\ coalesce_raises \in BOOLEAN

ReviewConcNext ==
    \/ \E p \in Workers, b \in BookingIds, rating \in Ratings : RevValidate(p, "owner", b, rating)
    \/ \E p \in Workers : RevInsert(p)
    \/ \E p \in Workers : RevAggregate(p)
    \/ \E p \in Workers : RevSaveRatings(p)

SpecReviewConc == InitReviewConc /\ [][ReviewConcNext]_vars

\* the same under an ORM that evaluates the aggregate
InitReviewConcEvaluated ==
    /\ InitReviewConc
    /\ coalesce_raises = FALSE

SpecReviewConcEvaluated == InitReviewConcEvaluated /\ [][ReviewConcNext]_vars

(***************************************************************************)
(* is_caregiver_available (models.py 302-325) called on databases that     *)
(* differ in the caregiver's rows: c1 has one availability record, of any  *)
(* weekday and any range of times, no or one time-off record and one       *)
(* booking in any status; c2 has no availability record.  Nothing in the   *)
(* code relates the rows of CaregiverAvailability and TimeOff (models.py   *)
(* 135-150) to one another.                                                *)
(***************************************************************************)
AvailabilityRecords ==
    { Availability("c1", w, s, e) :
        w \in {0, 1}, s \in 0..(SlotsPerDay - 1), e \in 0..(SlotsPerDay - 1) }
ValidAvailabilityRecords == { a \in AvailabilityRecords : a.start_time <= a.end_time }
TimeOffRecords == { t \in { Off("c1", f, u) : f \in {0, 1}, u \in {0, 1} } : t.date_from <= t.date_to }

\* the windows asked about: a start on day 0 or day 1, an end up to a day and
\* a slot later
AvailWindows ==
    { w \in (0..(2 * SlotsPerDay - 1)) \X (1..(3 * SlotsPerDay)) :
        w[1] < w[2] /\ w[2] - w[1] <= SlotsPerDay + 1 }

InitAvail ==
    /\ PLATFORM_FEE_PERCENT = 150
    /\ availabilities \in { {a} : a \in ValidAvailabilityRecords }
    /\ time_off \in {{}} \cup { {t} : t \in TimeOffRecords }
    /\ \E i \in 1..(MaxStart + 1), status \in STATUS_CHOICES :
          bookings = <<FixtureBooking(i, "c1", status)>>
    /\ nextId = 2
    /\ ledger = <<>>
    /\ updates = 0
    /\ last = Outcome("init", "ok")
    /\ commission = NoCommission
    /\ procs = [p \in Workers |-> Idle]
    /\ reviews = {}
    /\ ratings = NoRatings
    /\ coalesce_raises = FALSE

\* one call; the result is kept as Python prints it
IsCaregiverAvailable(caregiver, start, end) ==
    /\ last' = Outcome("is_caregiver_available",
                       IF is_caregiver_available(bookings, caregiver, start, end)
                       THEN "True" ELSE "False")
    /\ UNCHANGED <<cfgVars, reviewVars, dbVars, updates, commission, procs>>

\* calls of is_caregiver_available, and status changes of the booking
AvailNext ==
    \/ \E caregiver \in Caregivers, w \in AvailWindows :
          IsCaregiverAvailable(caregiver, w[1], w[2])
    \/ \E new_status \in STATUS_CHOICES : ChangeStatus(1, new_status)

SpecAvail == InitAvail /\ [][AvailNext]_vars

(***************************************************************************)
(* mark_paid and change_status on freshly loaded bookings of a database    *)
(* that holds bookings in every status (models.py 199-219).                *)
(***************************************************************************)
PayStatusNext ==
    \/ \E b \in BookingIds : MarkPaid(b)
    \/ \E b \in BookingIds, new_status \in STATUS_CHOICES : ChangeStatus(b, new_status)

SpecPayStatus == InitReviewEvaluated /\ [][PayStatusNext]_vars

(***************************************************************************)
(* change_status and mark_paid on separately loaded copies of a booking    *)
(* (models.py 199-219).  Each worker loads a booking, calls either method  *)
(* on its copy any number of times and drops it.  change_status tests and  *)
(* assigns the copy's status and saves update_fields=['status',            *)
(* 'updated_at'] (models.py 205); mark_paid saves                          *)
(* update_fields=['payment_status', 'updated_at'] (models.py 212).         *)
(***************************************************************************)
HeldChangeStatus(p, new_status) ==
    /\ procs[p].pc = "held"
    /\ LET r == change_status(procs[p].self, new_status)
       IN  IF r.raised
           THEN /\ last' = Outcome("change_status", "ValueError")
                /\ UNCHANGED <<cfgVars, reviewVars, dbVars, updates, commission, procs>>
           ELSE /\ bookings' = SaveFields(bookings, procs[p].b, r.self, {"status"})
                /\ procs' = [procs EXCEPT ![p].self = r.self]
                /\ last' = Outcome("change_status", "ok")
                /\ UNCHANGED <<cfgVars, reviewVars, nextId, ledger, updates, commission>>

HeldNext ==
    \/ \E p \in Workers, b \in BookingIds : PayLoad(p, b)
    \/ \E p \in Workers, new_status \in STATUS_CHOICES : HeldChangeStatus(p, new_status)
    \/ \E p \in Workers, insert_raises \in BOOLEAN : PayCall(p, insert_raises)
    \/ \E p \in Workers : PayDrop(p)

\* two pending bookings, one of each caregiver
PendingBookings ==
    <<FixtureBooking(1, "c1", STATUS_PENDING), FixtureBooking(2, "c2", STATUS_PENDING)>>

InitHeld ==
    /\ InitWithBookings(PendingBookings)
    /\ coalesce_raises = FALSE

SpecHeld == InitHeld /\ [][HeldNext]_vars

(***************************************************************************)
(* The accept, reject, cancel and complete requests (views.py 185-215) of  *)
(* every caller on a database that holds bookings in every status.         *)
(***************************************************************************)
StatusApiNext ==
    \E action \in StatusActions, c \in Callers, b \in BookingIds :
        StatusRequest(action, c[1], c[2], c[3], b)

SpecStatusApi == InitReviewEvaluated /\ [][StatusApiNext]_vars

(***************************************************************************)
(*                              The claims                                 *)
(***************************************************************************)

\* the transition table as the specification gives it
AllowedEdges ==
    { <<"pending", "accepted">>, <<"pending", "rejected">>, <<"pending", "cancelled">>,
      <<"accepted", "completed">>, <<"accepted", "cancelled">> }
TerminalStatuses == {"rejected", "cancelled", "completed"}
ActiveStatuses == {"pending", "accepted"}

\* C1: change_status(t) on a booking in status s succeeds and stores t exactly
\* when s -> t is an edge of the table; otherwise it raises and the status, in
\* memory and in the database, stays s (nothing else is written either).
C1_ChangeStatusFollowsTable ==
    [][\A b \in BookingIds, t \in STATUS_CHOICES :
          (last'.op = "change_status" /\ ChangeStatus(b, t)) =>
              LET s == bookings[b].status
              IN  IF <<s, t>> \in AllowedEdges
                  THEN /\ last'.result = "ok"
                       /\ change_status(bookings[b], t).self.status = t
                       /\ bookings'[b].status = t
                  ELSE /\ last'.result = "ValueError"
                       /\ change_status(bookings[b], t).self.status = s
                       /\ bookings' = bookings]_vars

\* the only booking, which is accepted, has refused a change_status
C1_Witness ==
    /\ last.op = "change_status"
    /\ last.result = "ValueError"
    /\ DOMAIN bookings = {1}
    /\ bookings[1].status = "accepted"

\* C2: once a booking is rejected, cancelled or completed, no change_status
\* call and no accept / reject / cancel / complete request succeeds on it, and
\* its status is the same after every step.
C2_TerminalStatesAreFinal ==
    [][\A b \in DOMAIN bookings :
          bookings[b].status \in TerminalStatuses =>
              /\ b \in DOMAIN bookings'
              /\ bookings'[b].status = bookings[b].status
              /\ \A t \in STATUS_CHOICES :
                    (last'.op = "change_status" /\ ChangeStatus(b, t))
                        => last'.result = "ValueError"
              /\ \A action \in StatusActions, c \in Callers :
                    (last'.op = "status_request" /\ last'.result = "ok")
                        => ~StatusRequest(action, c[1], c[2], c[3], b)]_vars

\* a request on the only booking, which is completed, has been refused
C2_Witness ==
    /\ last.op = "status_request"
    /\ last.result = "ValueError"
    /\ DOMAIN bookings = {1}
    /\ bookings[1].status = "completed"

\* C3: every change of a stored booking's status, by whatever request of the
\* booking endpoint, follows an edge of the table.
C3_StatusMovesOnlyAlongEdges ==
    [][\A b \in DOMAIN bookings \cap DOMAIN bookings' :
          bookings'[b].status # bookings[b].status =>
              <<bookings[b].status, bookings'[b].status>> \in AllowedEdges]_vars

\* C4: price_subtotal = platform_fee + caregiver_earnings for every stored
\* booking, in every reachable state.
C4_MoneySplitHolds ==
    \A b \in DOMAIN bookings :
        bookings[b].price_subtotal = bookings[b].platform_fee + bookings[b].caregiver_earnings

Abs(x) == IF x < 0 THEN -x ELSE x

\* C5: for an amount a >= 0 the two parts add up to a, and platform_fee is
\* a * P rounded to the cent (no other cent is nearer to a * P).
C5_CommissionSplit ==
    commission.amount >= 0 =>
        /\ commission.platform_fee + commission.caregiver_earnings = commission.amount
        /\ 2 * Abs(commission.platform_fee * RateDen - commission.amount * PLATFORM_FEE_PERCENT)
              <= RateDen

\* a call whose exact fee is not a whole number of cents and rounds up
C5_Witness ==
    /\ commission.amount > 0
    /\ (commission.amount * PLATFORM_FEE_PERCENT) % RateDen # 0
    /\ commission.platform_fee * RateDen > commission.amount * PLATFORM_FEE_PERCENT

C7_NoOverlappingActiveBookings ==
    \A a \in DOMAIN bookings, b \in DOMAIN bookings :
        ( /\ a # b
          /\ bookings[a].caregiver = bookings[b].caregiver
          /\ bookings[a].status \in ActiveStatuses
          /\ bookings[b].status \in ActiveStatuses )
        => ~( /\ bookings[a].start_datetime < bookings[b].end_datetime
              /\ bookings[b].start_datetime < bookings[a].end_datetime )

\* the three checks of the availability resolver, each stated on its own
WeeklyRecordMatches(c, start, end) ==
    { a \in availabilities :
        a.caregiver = c /\ a.weekday = Weekday(start)
        /\ ~(TimeOf(start) < a.start_time) /\ ~(a.end_time < TimeOf(end)) } # {}
TimeOffExcludes(c, start, end) ==
    { t \in time_off :
        t.caregiver = c /\ ~(DateOf(start) < t.date_from) /\ ~(t.date_to < DateOf(end)) } # {}
ActiveBookingOverlaps(c, start, end) ==
    { b \in DOMAIN bookings :
        bookings[b].caregiver = c /\ bookings[b].status \in ActiveStatuses
        /\ bookings[b].start_datetime < end /\ start < bookings[b].end_datetime } # {}
Windows == { w \in (0..(MaxStart + 1)) \X (0..(MaxStart + DurationCap("walk") + 1)) : w[1] < w[2] }

\* C8: is_caregiver_available is true exactly when a weekly record matches, no
\* time-off record excludes the window and no pending or accepted booking of
\* the caregiver overlaps it; so it is true for c1's first slot of day 0 while
\* c1 has no active booking.
C8_AvailableIffAllThreeChecks ==
    /\ \A c \in Caregivers, w \in Windows :
          is_caregiver_available(bookings, c, w[1], w[2])
              <=> ( /\ WeeklyRecordMatches(c, w[1], w[2])
                    /\ ~TimeOffExcludes(c, w[1], w[2])
                    /\ ~ActiveBookingOverlaps(c, w[1], w[2]) )
    /\ (\A b \in DOMAIN bookings :
            bookings[b].caregiver # "c1" \/ bookings[b].status \notin ActiveStatuses)
          => is_caregiver_available(bookings, "c1", 0, 1)

\* a create was refused while c1 has an active booking, whose window is
\* unavailable, and a booking in a terminal status, whose window is available
C8_Witness ==
    /\ last.op = "create"
    /\ last.result = "ValidationError"
    /\ \E a \in DOMAIN bookings, b \in DOMAIN bookings :
          /\ bookings[a].caregiver = "c1" /\ bookings[b].caregiver = "c1"
          /\ bookings[a].status \in ActiveStatuses
          /\ bookings[b].status \in TerminalStatuses
          /\ ~is_caregiver_available(bookings, "c1", bookings[a].start_datetime,
                                     bookings[a].end_datetime)
          /\ is_caregiver_available(bookings, "c1", bookings[b].start_datetime,
                                    bookings[b].end_datetime)

\* the checks of create_booking, as the specification lists them
FailsACheck(attrs, clock) ==
    \/ ownerprofile(attrs.user) = NoProfile
    \/ attrs.pet_id \notin {"p1"}
    \/ attrs.caregiver_id \notin Caregivers
    \/ attrs.service_type_code \notin DOMAIN ServiceTypes
    \/ ~\E cs \in CaregiverServices :
          cs.caregiver = attrs.caregiver_id /\ cs.service_type = attrs.service_type_code
          /\ cs.is_active
    \/ attrs.start_datetime < clock
    \/ attrs.duration_minutes > 4 * ServiceTypes[attrs.service_type_code].base_duration_minutes
    \/ ~( /\ WeeklyRecordMatches(attrs.caregiver_id, attrs.start_datetime,
                                 attrs.start_datetime + attrs.duration_minutes)
          /\ ~TimeOffExcludes(attrs.caregiver_id, attrs.start_datetime,
                              attrs.start_datetime + attrs.duration_minutes)
          /\ ~ActiveBookingOverlaps(attrs.caregiver_id, attrs.start_datetime,
                                    attrs.start_datetime + attrs.duration_minutes) )

\* C9: a create_booking that fails one of its checks answers with a validation
\* error and leaves the bookings and the ledger as they were: a create step
\* either does so, or is the step of no request that fails a check.
C9_FailedCreatePersistsNothing ==
    [][last'.op = "create" =>
          \/ /\ last'.result = "ValidationError"
             /\ bookings' = bookings
             /\ nextId' = nextId
             /\ ledger' = ledger
          \/ \A attrs \in CreateRequests, clock \in Clock :
                ~(FailsACheck(attrs, clock) /\ CreateBooking(attrs, clock))]_vars

\* a create was refused while a paid booking and its ledger entry exist
C9_Witness ==
    /\ last.op = "create"
    /\ last.result = "ValidationError"
    /\ Len(ledger) > 0
    /\ \E b \in DOMAIN bookings : bookings[b].payment_status = "paid"

ActivePrice(c, code) ==
    (CHOOSE cs \in CaregiverServices :
        cs.caregiver = c /\ cs.service_type = code /\ cs.is_active).price_per_unit

\* C10: the row a successful create_booking stores is pending, unpaid, ends at
\* start + duration and is priced at the caregiver's active price, whatever
\* else the request body holds.
C10_CreatedBookingIsPendingAndPriced ==
    [][\A attrs \in CreateRequests, clock \in Clock :
          (last'.op = "create" /\ last'.result = "ok" /\ CreateBooking(attrs, clock)) =>
              /\ DOMAIN bookings' = DOMAIN bookings \cup {nextId}
              /\ nextId \notin DOMAIN bookings
              /\ LET row == bookings'[nextId]
                 IN  /\ row.status = "pending"
                     /\ row.payment_status = "pending"
                     /\ row.caregiver = attrs.caregiver_id
                     /\ row.start_datetime = attrs.start_datetime
                     /\ row.duration_minutes = attrs.duration_minutes
                     /\ row.end_datetime = row.start_datetime + row.duration_minutes
                     /\ row.price_subtotal = ActivePrice(attrs.caregiver_id,
                                                         attrs.service_type_code)]_vars

\* two bookings have been created, the second by c2
C10_Witness ==
    /\ last.op = "create"
    /\ last.result = "ok"
    /\ 2 \in DOMAIN bookings
    /\ bookings[2].caregiver = "c2"

\* the ledger's credit entries of a booking
CreditsOf(entries, b) ==
    Cardinality({ i \in DOMAIN entries :
                    entries[i].booking = b /\ entries[i].direction = "credit" })

\* C11: the first mark_paid on a booking stores payment_status paid and appends
\* one ledger entry; every later one changes neither the bookings nor the
\* ledger; after any mark_paid the booking has exactly one credit entry.
C11_MarkPaidIsIdempotent ==
    [][\A b \in BookingIds :
          (last'.op = "mark_paid" /\ MarkPaid(b)) =>
              /\ CreditsOf(ledger', b) = 1
              /\ IF bookings[b].payment_status = "paid"
                 THEN /\ bookings' = bookings
                      /\ ledger' = ledger
                 ELSE /\ bookings'[b].payment_status = "paid"
                      /\ Len(ledger') = Len(ledger) + 1]_vars

\* a mark_paid on an already paid booking has returned early, while another
\* booking is still unpaid
C11_Witness ==
    /\ last.op = "mark_paid"
    /\ last.result = "noop"
    /\ Len(ledger) = 1
    /\ \E b \in DOMAIN bookings : bookings[b].payment_status = "pending"

\* C12: in every committed state a booking is stored as paid exactly when it
\* has a ledger credit, and a mark_paid whose insert does not fail, on a
\* booking that is stored as not paid (as it is after a failed append), stores
\* paid and appends the booking's entry.
C12_MarkPaidAtomicAndRepeatable ==
    [][/\ \A b \in DOMAIN bookings' :
             bookings'[b].payment_status = "paid" <=> CreditsOf(ledger', b) >= 1
       /\ \A p \in Workers :
             ( /\ last'.op = "mark_paid"
               /\ procs[p].pc = "held"
               /\ bookings[procs[p].b].payment_status # "paid"
               /\ PayCall(p, FALSE) )
             => /\ bookings'[procs[p].b].payment_status = "paid"
                /\ CreditsOf(ledger', procs[p].b) = 1]_vars

\* C20: whatever copies of a booking mark_paid is called on, the ledger never
\* holds more than one credit entry for the booking.
C20_OneCreditUnderConcurrency ==
    \A b \in DOMAIN bookings : CreditsOf(ledger, b) <= 1

\* the stored aggregate of a caregiver is the count of the reviews targeting it
\* and their mean to the nearest hundredth, 0.00 and 0 when there is none
AggregateIsExact(c) ==
    LET mine == { r \in reviews : r.target_caregiver = c }
        n == Cardinality(mine)
    IN  /\ ratings[c].rating_count = n
        /\ IF n = 0 THEN ratings[c].rating_average = 0
           ELSE 2 * Abs(ratings[c].rating_average * n - 100 * SumRatings(mine)) <= n

\* C13: after any sequence of review creations every caregiver's rating_count
\* is the number of its reviews and rating_average their mean rounded to two
\* places (0.00 and 0 without reviews).
C13_RatingsAfterCreations ==
    \A c \in Caregivers : AggregateIsExact(c)

\* C14: whatever review requests are served, every caregiver's stored
\* aggregate is the count and the rounded mean of the reviews targeting it.
C14_AggregateNeverDrifts ==
    \A c \in DOMAIN ratings : AggregateIsExact(c)

\* C15: a create_review succeeds only on a completed booking; on a booking in
\* any other status it answers with a validation error and leaves the reviews
\* and the rating aggregates as they were.
C15_ReviewOnlyWhenCompleted ==
    [][\A user \in ReviewUsers, b \in DOMAIN bookings, rating \in ReviewRatings :
          (last'.op = "create_review" /\ CreateReview(user, b, rating)) =>
              IF bookings[b].status = "completed"
              THEN last'.result # "ValidationError" =>
                      \E r \in reviews' \ reviews : r.booking = b /\ r.rating = rating
              ELSE /\ last'.result = "ValidationError"
                   /\ reviews' = reviews
                   /\ ratings' = ratings]_vars

\* a create_review has been refused while no booking is completed: one is
\* pending or accepted, the other rejected or cancelled
C15_Witness ==
    /\ last.op = "create_review"
    /\ last.result = "ValidationError"
    /\ reviews = {}
    /\ \E a \in DOMAIN bookings, b \in DOMAIN bookings :
          /\ bookings[a].status \in {"pending", "accepted"}
          /\ bookings[b].status \in {"rejected", "cancelled"}

ReviewsOfBooking(rows, b) == { r \in rows : r.booking = b }

\* C16: no booking ever has more than one review: a create_review for a
\* booking that has a review is refused by validate, and an insert for such a
\* booking, validated before the other request's insert, is refused by the
\* database; neither adds a review.
C16_AtMostOneReviewPerBooking ==
    [][/\ \A b \in DOMAIN bookings' : Cardinality(ReviewsOfBooking(reviews', b)) <= 1
       /\ \A p \in Workers :
             ( /\ procs[p].pc = "review_validated"
               /\ ReviewsOfBooking(reviews, procs[p].attrs.booking) # {}
               /\ RevInsert(p) )
             => /\ last'.result = "IntegrityError"
                /\ reviews' = reviews
       /\ \A p \in Workers, b \in BookingIds, rating \in Ratings :
             ( /\ last'.op = "create_review"
               /\ ReviewsOfBooking(reviews, b) # {}
               /\ RevValidate(p, "owner", b, rating) )
             => /\ last'.result = "ValidationError"
                /\ reviews' = reviews]_vars

\* the later of two concurrent requests for one booking has been refused by
\* the database, and the booking has its one review
C16_Witness ==
    /\ last.op = "create_review"
    /\ last.result = "IntegrityError"
    /\ Cardinality(ReviewsOfBooking(reviews, 1)) = 1
    /\ ReviewsOfBooking(reviews, 2) = {}

\* C19: once every request has finished, the aggregate of each caregiver
\* reflects all the reviews that were created.
C19_ConcurrentReviewsBothCounted ==
    (\A p \in Workers : procs[p].pc = "idle") => \A c \in Caregivers : AggregateIsExact(c)

\* C17: the ledger is append-only: no step removes an entry or changes a field
\* of an entry that exists.
C17_LedgerAppendOnly ==
    [][/\ Len(ledger') >= Len(ledger)
       /\ \A i \in 1..Len(ledger) : ledger'[i] = ledger[i]]_vars

\* C18: when status requests of two workers have loaded a booking, the save
\* of each moves the stored status along an edge of the table from the status
\* stored at that moment, or leaves it as it is.
C18_ConcurrentStatusFollowsEdges ==
    [][\A p \in Workers :
          (procs[p].pc = "loaded" /\ StatusSave(p)) =>
              LET b == procs[p].b
              IN  \/ bookings'[b].status = bookings[b].status
                  \/ <<bookings[b].status, bookings'[b].status>> \in AllowedEdges]_vars

\* a record of the caregiver, of the start's weekday, whose range of times
\* contains the time of day of the start and that of the end
RecordContainsBothTimes(c, start, end) ==
    \E a \in availabilities :
        /\ a.caregiver = c
        /\ a.weekday = Weekday(start)
        /\ a.start_time <= TimeOf(start) /\ TimeOf(start) <= a.end_time
        /\ a.start_time <= TimeOf(end) /\ TimeOf(end) <= a.end_time

\* C21: is_caregiver_available answers True only for a window such that a
\* record of the caregiver has the start's weekday and a range of times that
\* contains the start's and the end's time of day, bounds included, also when
\* the end is on a later day than the start.
C21_WeeklyWindowContainsBothTimes ==
    [][\A c \in Caregivers, w \in AvailWindows :
          ( /\ last'.op = "is_caregiver_available"
            /\ IsCaregiverAvailable(c, w[1], w[2])
            /\ last'.result = "True" )
          => RecordContainsBothTimes(c, w[1], w[2])]_vars

\* the bookings that block a window: the caregiver's, not in a terminal
\* status, and neither over before the window starts nor starting after it ends
BlockingBookings(rows, c, start, end) ==
    { b \in DOMAIN rows :
        /\ rows[b].caregiver = c
        /\ rows[b].status \notin TerminalStatuses
        /\ ~(rows[b].end_datetime <= start \/ end <= rows[b].start_datetime) }

\* C22: where the weekly check and the time-off check pass,
\* is_caregiver_available answers False exactly when a pending or accepted
\* booking of the caregiver overlaps the window; a booking that only touches
\* the window or is in a terminal status does not block, so once a booking
\* has moved to a terminal status its own window is no longer blocked by it.
C22_OnlyActiveOverlapsBlock ==
    [][/\ \A c \in Caregivers, w \in AvailWindows :
            ( /\ last'.op = "is_caregiver_available"
              /\ IsCaregiverAvailable(c, w[1], w[2])
              /\ TimeRangeOk(c, w[1], w[2])
              /\ ~TimeOffHit(c, w[1], w[2]) )
            => (last'.result = "False" <=> BlockingBookings(bookings, c, w[1], w[2]) # {})
       /\ \A b \in DOMAIN bookings :
            ( /\ last'.op = "change_status"
              /\ last'.result = "ok"
              /\ bookings'[b].status \in TerminalStatuses )
            => LET row == bookings'[b]
               IN  is_caregiver_available(bookings', row.caregiver,
                                          row.start_datetime, row.end_datetime)
                     <=> ( /\ TimeRangeOk(row.caregiver, row.start_datetime, row.end_datetime)
                           /\ ~TimeOffHit(row.caregiver, row.start_datetime,
                                          row.end_datetime) )]_vars

\* a call has answered True while the booking is in a terminal status and its
\* own window is available, and the window that follows it, which it touches,
\* would be available were it active
C22_Witness ==
    /\ last.op = "is_caregiver_available"
    /\ last.result = "True"
    /\ bookings[1].status \in TerminalStatuses
    /\ is_caregiver_available(bookings, "c1", bookings[1].start_datetime,
                              bookings[1].end_datetime)
    /\ BlockingBookings([bookings EXCEPT ![1].status = "accepted"], "c1",
                        bookings[1].end_datetime, bookings[1].end_datetime + 1) = {}

\* a time-off record of the caregiver whose range of dates, bounds included,
\* holds the date of the start and the date of the end
InsideTimeOff(c, start, end) ==
    \E t \in time_off :
        /\ t.caregiver = c
        /\ DateOf(start) \in t.date_from..t.date_to
        /\ DateOf(end) \in t.date_from..t.date_to

\* C23: is_caregiver_available answers False for every window that lies inside
\* a time-off record of the caregiver, also when the weekly record matches and
\* no booking overlaps.
C23_TimeOffExcludesWindow ==
    [][\A c \in Caregivers, w \in AvailWindows :
          ( /\ last'.op = "is_caregiver_available"
            /\ IsCaregiverAvailable(c, w[1], w[2])
            /\ InsideTimeOff(c, w[1], w[2]) )
          => last'.result = "False"]_vars

\* a call has answered False while some window of c1 lies inside a time-off
\* record of a single date, matches the weekly record and has no blocking
\* booking: only the time off makes it unavailable
C23_Witness ==
    /\ last.op = "is_caregiver_available"
    /\ last.result = "False"
    /\ \E w \in AvailWindows :
          /\ InsideTimeOff("c1", w[1], w[2])
          /\ \A t \in time_off : t.date_from = t.date_to
          /\ TimeRangeOk("c1", w[1], w[2])
          /\ BlockingBookings(bookings, "c1", w[1], w[2]) = {}
          /\ ~is_caregiver_available(bookings, "c1", w[1], w[2])

\* four times the base duration of the requested service type
FourTimesBase(attrs) == 4 * ServiceTypes[attrs.service_type_code].base_duration_minutes

\* C24: a create_booking whose duration_minutes is greater than 4 times the
\* base duration of its service type is refused and stores nothing; one whose
\* duration is at most 4 times the base, the boundary included, and that
\* passes the other checks is accepted and stored with that duration.
C24_DurationCapAtFourTimesBase ==
    [][\A attrs \in CreateRequests, clock \in Clock :
          ( /\ last'.op = "create"
            /\ CreateBooking(attrs, clock)
            /\ attrs.service_type_code \in DOMAIN ServiceTypes )
          => IF attrs.duration_minutes > FourTimesBase(attrs)
             THEN /\ last'.result = "ValidationError"
                  /\ bookings' = bookings
             ELSE ~FailsACheck(attrs, clock)
                    => /\ last'.result = "ok"
                       /\ bookings'[nextId].duration_minutes = attrs.duration_minutes]_vars

\* a create has been refused while a booking of exactly 4 times the base
\* duration is stored
C24_Witness ==
    /\ last.op = "create"
    /\ last.result = "ValidationError"
    /\ \E b \in DOMAIN bookings :
          bookings[b].duration_minutes = 4 * ServiceTypes[bookings[b].service_type].base_duration_minutes

\* C25: a create_booking whose start is earlier than the current time is
\* refused and stores nothing, whatever the caregiver's availability; one
\* whose start is the current time or later and that passes the other checks
\* is accepted and stored with that start.
C25_StartInThePastIsRefused ==
    [][\A attrs \in CreateRequests, clock \in Clock :
          (last'.op = "create" /\ CreateBooking(attrs, clock))
          => IF attrs.start_datetime < clock
             THEN /\ last'.result = "ValidationError"
                  /\ bookings' = bookings
                  /\ nextId' = nextId
             ELSE ~FailsACheck(attrs, clock)
                    => /\ last'.result = "ok"
                       /\ bookings'[nextId].start_datetime = attrs.start_datetime]_vars

\* a create has been refused while a booking that starts at the latest
\* current time is stored, and some request for a free window of an available
\* caregiver fails at that time and at no earlier time
C25_Witness ==
    /\ last.op = "create"
    /\ last.result = "ValidationError"
    /\ \E b \in DOMAIN bookings : bookings[b].start_datetime = MaxNow
    /\ \E attrs \in CreateRequests :
          /\ attrs.start_datetime < MaxNow
          /\ ~FailsACheck(attrs, attrs.start_datetime)
          /\ FailsACheck(attrs, MaxNow)

\* C26: the ledger entry a successful mark_paid appends is a credit of the
\* booking's caregiver_earnings, which differs from its price_subtotal and its
\* platform_fee, and refers to the booking and to the user of its caregiver,
\* whatever the status of the booking.
C26_CreditOfCaregiverEarnings ==
    [][\A b \in DOMAIN bookings :
          (last'.op = "mark_paid" /\ last'.result = "ok" /\ MarkPaid(b))
          => /\ Len(ledger') = Len(ledger) + 1
             /\ LET entry == ledger'[Len(ledger')]
                    row == bookings[b]
                IN  /\ entry.direction = "credit"
                    /\ entry.amount = row.caregiver_earnings
                    /\ entry.amount = row.price_subtotal - row.platform_fee
                    /\ entry.amount \notin {row.price_subtotal, row.platform_fee}
                    /\ entry.booking = b
                    /\ entry.user = (IF row.caregiver = "c1" THEN "care1" ELSE "care2")]_vars

\* a mark_paid has just paid a booking that is not completed, and the ledger
\* holds credits of bookings in two different statuses, one for each caregiver
C26_Witness ==
    /\ last.op = "mark_paid"
    /\ last.result = "ok"
    /\ Len(ledger) = 2
    /\ ledger[1].booking \in DOMAIN bookings
    /\ ledger[2].booking \in DOMAIN bookings
    /\ bookings[ledger[1].booking].status # bookings[ledger[2].booking].status
    /\ bookings[ledger[2].booking].status \in {"rejected", "cancelled", "pending"}
    /\ ledger[1].user # ledger[2].user

\* the payment and money fields of a booking row
PaymentFields(row) ==
    <<row.payment_status, row.price_subtotal, row.platform_fee, row.caregiver_earnings>>

\* C27: a change_status, whether it succeeds or raises, leaves every
\* booking's payment_status and money fields and the ledger as they were, and
\* a mark_paid leaves every booking's status as it was, also when the call is
\* made on a copy loaded before another copy's write.
C27_StatusAndPaymentOrthogonal ==
    [][/\ \A p \in Workers, new_status \in STATUS_CHOICES :
            (last'.op = "change_status" /\ HeldChangeStatus(p, new_status))
            => /\ ledger' = ledger
               /\ \A b \in DOMAIN bookings : PaymentFields(bookings'[b]) = PaymentFields(bookings[b])
       /\ \A p \in Workers, insert_raises \in BOOLEAN :
            (last'.op = "mark_paid" /\ PayCall(p, insert_raises))
            => \A b \in DOMAIN bookings : bookings'[b].status = bookings[b].status]_vars

\* both workers hold a copy of booking 1, loaded while it was pending and
\* unpaid; one has paid it and the other has accepted it, so each copy is
\* stale in the other's field, and the row is accepted and paid
C27_Witness ==
    /\ \A p \in Workers : procs[p].pc = "held" /\ procs[p].b = 1
    /\ \E p \in Workers, q \in Workers :
          /\ procs[p].self.payment_status = "paid" /\ procs[p].self.status = "pending"
          /\ procs[q].self.payment_status = "pending" /\ procs[q].self.status = "accepted"
    /\ bookings[1].status = "accepted"
    /\ bookings[1].payment_status = "paid"
    /\ Len(ledger) = 1

\* C28: a request that stores a new review calls recalc_ratings exactly once,
\* in the step that stores it, so that where the aggregate is evaluated the
\* target's count is the number of its reviews right after that step; a
\* request that saves a review stored before calls it not at all and leaves
\* the ratings as they were.
C28_RecomputeOncePerNewReview ==
    [][/\ (last'.op = "create_review" /\ reviews' # reviews)
            => /\ last'.recalc_calls = 1
               /\ \A r \in reviews' \ reviews :
                     ~coalesce_raises =>
                         ratings'[r.target_caregiver].rating_count =
                            Cardinality({ x \in reviews' : x.target_caregiver = r.target_caregiver })
       /\ (last'.op = "create_review" /\ reviews' = reviews) => last'.recalc_calls = 0
       /\ last'.op = "update_review"
            => /\ last'.recalc_calls = 0
               /\ ratings' = ratings]_vars

\* a review stored with rating 3 has been saved again with rating 5, and the
\* ratings are those computed when it was stored
C28_Witness ==
    /\ last.op = "update_review"
    /\ last.result = "ok"
    /\ Cardinality(reviews) = 1
    /\ \E r \in reviews, c \in Caregivers :
          /\ r.rating = 5
          /\ ratings[c] = [rating_average |-> 300, rating_count |-> 1]

\* C29: every review a create_review stores has the user of the owner of its
\* booking as author and the booking's caregiver as target; a create_review
\* of any other user stores no review.
C29_AuthorIsBookingOwner ==
    [][(last'.op = "create_review" /\ reviews' # reviews)
          => \A r \in reviews' \ reviews :
                /\ r.author = owner_user(bookings[r.booking].owner)
                /\ r.target_caregiver = bookings[r.booking].caregiver]_vars

\* C30: an accept, reject or complete request changes the status of a booking
\* only when its user is the user of the booking's caregiver, and a cancel
\* request only when its user is the user of the booking's owner or of its
\* caregiver; the request of any other user leaves every booking as it was.
C30_OnlyPartiesChangeStatus ==
    [][\A action \in StatusActions, c \in Callers, b \in DOMAIN bookings :
          (last'.op = "status_request" /\ StatusRequest(action, c[1], c[2], c[3], b))
          => LET isCaregiver == c[1] = caregiver_user(bookings[b].caregiver)
                 isOwner == c[1] = owner_user(bookings[b].owner)
                 allowed == IF action = "cancel" THEN isOwner \/ isCaregiver ELSE isCaregiver
             IN  /\ bookings'[b].status # bookings[b].status => allowed
                 /\ ~allowed => /\ bookings' = bookings
                                /\ last'.result \in {"403", "404"}]_vars

\* the owner's accept, reject or complete of an own booking has been answered
\* 403, bookings of both caregivers being pending
C30_Witness ==
    /\ last.op = "status_request"
    /\ last.result = "403"
    /\ \A b \in DOMAIN bookings : bookings[b].status = "pending"

=============================================================================
